---------------------------- MODULE Spec2Model ----------------------------
(***************************************************************************)
(* Model of the universal-server-backup orchestration scripts:             *)
(*   scripts/backup_v2.py   BackupEngine + main                            *)
(*   scripts/backup.py      SystemBackup                                   *)
(*   scripts/restore_v2.py  RestoreEngine + main                           *)
(*   scripts/restore.py     SystemRestore                                  *)
(* One process runs at a time (the scripts have no locking and rely on     *)
(* external mutual exclusion); the wall clock advances between steps.      *)
(***************************************************************************)
EXTENDS Integers, Sequences, FiniteSets, TLC

(* ------------------------------ bounds -------------------------------- *)
\* wall-clock seconds run over 0..MaxClock
MaxClock == 1
\* number of processes started in one behaviour
MaxRuns == 3
\* distinct non-empty artifact byte streams: 1..MaxContent (0 is the empty /
\* truncated stream)
MaxContent == 1

(* ------------------------- program constants -------------------------- *)
\* backups already in the bucket when the modelled runs begin
MaxStored == 6

MAX_BACKUPS == 5

VARIABLES
    clock,        \* datetime.now(), in seconds
    runs,         \* processes started so far
    manifestDir,  \* MANIFEST_DIR: the *.manifest.json files, keyed by filename
    tempDir,      \* TEMP_DIR: artifact files, keyed by filename
    snapshots,    \* /var/lib/universal-backup/snapshots/<timestamp> directories
    latest,       \* target of the snapshots/latest symlink
    s3,           \* objects in the S3 bucket under the configured folder
    prog,         \* which script the running process executes
    pc,           \* its position
    args,         \* its command line (and the configuration it read)
    engine,       \* BackupEngine / SystemBackup instance fields
    backup_file,  \* main's local variable backup_file
    events,       \* what the process has done so far, in order
    exit,         \* its exit status (Running until it ends)
    startDir,     \* MANIFEST_DIR as it was when the process started
    restoreDir,   \* the restore scripts' scratch directories, per script
    rargs,        \* command line of a restore process
    loc,          \* local variables of a restore process
    remote,       \* what backup.py / restore.py's backends hold, per backend
    listing       \* the listing a restore.py --list run printed

vars == <<clock, runs, manifestDir, tempDir, snapshots, latest, s3,
          prog, pc, args, engine, backup_file, events, exit, startDir,
          restoreDir, rargs, loc, remote, listing>>

\* what a backup process leaves alone / what a restore process leaves alone
restoreVars == <<restoreDir, rargs, loc, listing>>
backupVars == <<manifestDir, tempDir, snapshots, latest, args, engine,
                backup_file, startDir>>

(* ------------------------------ values -------------------------------- *)
Contents == 0..MaxContent
Times == 0..MaxClock
BackupTypes == {"full", "incremental", "differential"}

\* f"{backup_name}_{type}_{timestamp}.{ext}" with the configured backup_name;
\* the extension follows from the type (.img.gz for full, .tar.gz otherwise)
FileName(type, ts) == [type |-> type, ts |-> ts]
NullRef == [type |-> "null", ts |-> 0]         \* Python None
AbsentRef == [type |-> "absent", ts |-> 0]     \* key not in the dict
NoFile == [type |-> "none", ts |-> 0]          \* a function returned None
DryRunFile(type) == [type |-> "dry-run", ts |-> 0]   \* "/tmp/dry-run-<type>..."
IsRealFile(f) == f.type \in {"full", "incremental"}

\* hashlib.sha256 over the byte stream (taken to be collision free)
SHA256(content) == <<"sha256", content>>

SourceDisk == "/dev/vda"
NoDisk == "absent"

NoManifest == [type |-> "none", timestamp |-> 0, filename |-> NoFile,
               source_disk |-> NoDisk, checksum_sha256 |-> SHA256(0),
               base_backup |-> AbsentRef]

\* position of the first character in which two filenames of the same
\* backup_name differ: 'f' (full) sorts before 'i' (incremental)
TypeOrd(type) == IF type = "full" THEN 0 ELSE 1

\* string order of two manifest file names, as sorted() compares the paths
PathLess(a, b) ==
    \/ TypeOrd(a.type) < TypeOrd(b.type)
    \/ a.type = b.type /\ a.ts < b.ts

\* open(path, 'w') + write: create the file or replace its content
WriteFile(dir, file) == {f \in dir : f.filename # file.filename} \cup {file}

\* a file of a scratch directory: an artifact <filename>, or the manifest
\* <filename>.manifest.json (sidecar)
LocalFile(filename, sidecar, content, manifest) ==
    [filename |-> filename, sidecar |-> sidecar, content |-> content,
     manifest |-> manifest]

PutLocal(dir, file) ==
    {f \in dir : ~(f.filename = file.filename /\ f.sidecar = file.sidecar)}
    \cup {file}

\* reading the record of what the running process has done
HasEvent(e) == \E i \in 1..Len(events) : events[i] = e
IsUpload(e) == e \in {"upload_blob:s3", "upload_manifest:s3",
                       "upload_blob:gdrive", "upload_blob:gcs"}

(* ------------------- backup_v2.py: BackupEngine ----------------------- *)
\* The state a create_* method reads and writes, and what it returns.
Here == [manifestDir |-> manifestDir, tempDir |-> tempDir,
         snapshots |-> snapshots, latest |-> latest,
         manifest |-> engine.manifest, image_path |-> engine.image_path,
         ret |-> NoFile, events |-> <<>>]

NoSnapshot == 0 - 1

\* find_last_manifest: the first manifest, in reverse order of the manifest
\* file names, whose type matches (any type when backup_type is "any")
find_last_manifest(dir, backup_type) ==
    LET matching == {m \in dir : backup_type = "any" \/ m.type = backup_type}
    IN IF matching = {} THEN NoManifest
       ELSE CHOOSE m \in matching :
              \A o \in matching : o = m \/ PathLess(o.filename, m.filename)

\* What the external tools of one capture do.  The full capture is the shell
\* pipeline "dd | pigz > file", whose exit status is pigz's; the incremental
\* capture is rsync followed by tar.
Outcomes == [disk_ok : BOOLEAN, dd_ok : BOOLEAN, pigz_ok : BOOLEAN,
             rsync : {"ok", "fail_early", "fail_partial"}, tar_ok : BOOLEAN,
             content : 1..MaxContent]

\* "Save manifest": json.dump into MANIFEST_DIR/<filename>.manifest.json
save_manifest_never(st, manifest) ==
    [st EXCEPT !.manifest = manifest]

save_manifest(st, manifest) ==
    [st EXCEPT !.manifest = manifest,
               !.manifestDir = WriteFile(st.manifestDir, manifest),
               !.events = st.events \o <<"manifest_write">>]

\* "Create manifest" of a full backup: no base_backup key
full_manifest_with_base(st, filename, bytes) ==
    [type |-> "full", timestamp |-> engine.timestamp,
     filename |-> filename, source_disk |-> SourceDisk,
     checksum_sha256 |-> SHA256(bytes),
     base_backup |-> IF find_last_manifest(st.manifestDir, "any") # NoManifest
                     THEN find_last_manifest(st.manifestDir, "any").filename
                     ELSE NullRef]

full_manifest(st, filename, bytes) ==
    [type |-> "full", timestamp |-> engine.timestamp,
     filename |-> filename, source_disk |-> SourceDisk,
     checksum_sha256 |-> SHA256(bytes),
     base_backup |-> AbsentRef]

create_full_backup(st, e) ==
    IF ~e.disk_ok THEN [st EXCEPT !.ret = NoFile]
    ELSE IF args.dry_run THEN [st EXCEPT !.ret = DryRunFile("full")]
    ELSE
      LET filename == FileName("full", engine.timestamp)
          \* the redirection creates the file; dd stopping early truncates
          \* the stream pigz compresses
          bytes == IF e.dd_ok /\ e.pigz_ok THEN e.content ELSE 0
          output == LocalFile(filename, FALSE, bytes, NoManifest)
          ran == <<"capture">> \o
                 (IF e.dd_ok /\ e.pigz_ok THEN <<>> ELSE <<"capture_tool_failed">>)
          captured == [st EXCEPT !.tempDir = PutLocal(st.tempDir, output),
                                 !.events = st.events \o ran]
      IN IF ~e.pigz_ok
         THEN \* check=True raises on the pipeline's exit status
              [captured EXCEPT !.ret = NoFile]
         ELSE [save_manifest([captured EXCEPT !.events = captured.events \o <<"checksum">>],
                             full_manifest(st, filename, bytes))
                 EXCEPT !.ret = filename]

create_incremental_backup(st, e) ==
    IF args.dry_run THEN [st EXCEPT !.ret = DryRunFile("incremental")]
    ELSE
      LET last_manifest == find_last_manifest(st.manifestDir, "any")
          filename == FileName("incremental", engine.timestamp)
          bytes == IF e.tar_ok THEN e.content ELSE 0
          manifest == [type |-> "incremental", timestamp |-> engine.timestamp,
                       filename |-> filename, source_disk |-> NoDisk,
                       checksum_sha256 |-> SHA256(bytes),
                       base_backup |-> IF last_manifest # NoManifest
                                       THEN last_manifest.filename ELSE NullRef]
          output == LocalFile(filename, FALSE, bytes, NoManifest)
          \* rsync into snapshots/<timestamp>, then repoint snapshots/latest
          synced == [st EXCEPT !.snapshots = st.snapshots \cup {engine.timestamp},
                               !.latest = engine.timestamp]
          archived == [synced EXCEPT !.tempDir = PutLocal(st.tempDir, output)]
      IN IF e.rsync # "ok"
         THEN [st EXCEPT !.snapshots = IF e.rsync = "fail_partial"
                                       THEN st.snapshots \cup {engine.timestamp}
                                       ELSE st.snapshots,
                         !.events = st.events \o <<"capture", "capture_tool_failed">>,
                         !.ret = NoFile]
         ELSE IF ~e.tar_ok
         THEN [archived EXCEPT !.events = st.events \o <<"capture", "capture_tool_failed">>,
                               !.ret = NoFile]
         ELSE [save_manifest([archived EXCEPT !.events = st.events \o <<"capture", "checksum">>],
                             manifest)
                 EXCEPT !.ret = filename]

create_differential_backup_as_incremental(st, e) ==
    IF args.dry_run THEN [st EXCEPT !.ret = DryRunFile("differential")]
    ELSE create_incremental_backup(st, e)

create_differential_backup(st, e) ==
    IF args.dry_run THEN [st EXCEPT !.ret = DryRunFile("differential")]
    ELSE
      LET last_full == find_last_manifest(st.manifestDir, "full")
      IN IF last_full = NoManifest
         THEN create_full_backup(st, e)
         ELSE create_incremental_backup(st, e)

\* upload_to_s3: the artifact, then its manifest when the manifest file
\* exists; an exception at either call makes it return False.
\* how: "ok", "blob_fail" (first upload_file raised), "sidecar_fail" (second)
S3Object(filename, sidecar, content, manifest, modified) ==
    [filename |-> filename, sidecar |-> sidecar, content |-> content,
     manifest |-> manifest, modified |-> modified]

PutObject(bucket, obj) ==
    {o \in bucket : ~(o.filename = obj.filename /\ o.sidecar = obj.sidecar)}
    \cup {obj}

UploadOutcomes == {"ok", "blob_fail", "sidecar_fail"}

upload_to_s3(bucket, file, how) ==
    LET local == {f \in tempDir : f.filename = file /\ ~f.sidecar}
        manifest_file == {m \in manifestDir : m.filename = file}
        blob == S3Object(file, FALSE, (CHOOSE f \in local : TRUE).content,
                         NoManifest, clock)
        side == S3Object(file, TRUE, 0, CHOOSE m \in manifest_file : TRUE, clock)
    IN IF local = {} \/ how = "blob_fail"
       THEN [bucket |-> bucket, success |-> FALSE, events |-> <<"upload_failed:s3">>]
       ELSE IF manifest_file = {}
       THEN [bucket |-> PutObject(bucket, blob), success |-> TRUE,
             events |-> <<"upload_blob:s3">>]
       ELSE IF how = "sidecar_fail"
       THEN [bucket |-> PutObject(bucket, blob), success |-> FALSE,
             events |-> <<"upload_blob:s3", "upload_failed:s3">>]
       ELSE [bucket |-> PutObject(PutObject(bucket, blob), side), success |-> TRUE,
             events |-> <<"upload_blob:s3", "upload_manifest:s3">>]

\* upload_to_gdrive: "not yet implemented in v2"
upload_to_gdrive(bucket) ==
    [bucket |-> bucket, success |-> FALSE, events |-> <<"upload_failed:gdrive">>]

upload_to_backend(bucket, file, backend, how) ==
    IF backend = "s3" THEN upload_to_s3(bucket, file, how)
    ELSE upload_to_gdrive(bucket)

\* rotate_s3_backups: list, drop the manifests, sort by LastModified with the
\* newest first (a stable sort of the listing, which is in key order), and
\* delete what follows the first MAX_BACKUPS, each with its manifest.
\* failAt = k > 0: the k-th delete_object of an artifact raises, which ends
\* the rotation; sideFail: artifacts whose manifest delete raises (ignored).
ListedBefore(a, b) ==
    \/ a.modified > b.modified
    \/ a.modified = b.modified /\ PathLess(a.filename, b.filename)

\* the objects of a bucket that are backups, not manifests
Blobs(bucket) == {o \in bucket : ~o.sidecar}

RotationVictims_newest(bucket) ==
    {b \in Blobs(bucket) :
       Cardinality({a \in Blobs(bucket) : ListedBefore(b, a)}) >= MAX_BACKUPS}

RotationVictims(bucket) ==
    LET backups == Blobs(bucket)
    IN {b \in backups :
          Cardinality({a \in backups : ListedBefore(a, b)}) >= MAX_BACKUPS}

rotate_s3_backups(bucket, failAt, sideFail) ==
    LET victims == RotationVictims(bucket)
        rank(b) == 1 + Cardinality({a \in victims : ListedBefore(a, b)})
        gone == {b \in victims : failAt = 0 \/ rank(b) < failAt}
    IN {o \in bucket :
          ~\E b \in gone : /\ o.filename = b.filename
                           /\ (o.sidecar => b.filename \notin sideFail)}

\* what a rotation did, in order: the deletions made, a delete_object that
\* raised on a manifest (swallowed), one that raised on an artifact (caught
\* by the outer except, which ends the rotation)
rotate_s3_events(bucket, failAt, sideFail) ==
    LET victims == RotationVictims(bucket)
        rank(b) == 1 + Cardinality({a \in victims : ListedBefore(a, b)})
        gone == {b \in victims : failAt = 0 \/ rank(b) < failAt}
    IN (IF gone # {} THEN <<"rotate_delete:s3">> ELSE <<>>)
       \o (IF \E b \in gone : b.filename \in sideFail
           THEN <<"rotate_manifest_failed:s3">> ELSE <<>>)
       \o (IF failAt > 0 /\ failAt <= Cardinality(victims)
           THEN <<"rotate_failed:s3">> ELSE <<>>)

rotate_backups(bucket, backend, failAt, sideFail) ==
    IF backend = "s3"
    THEN [bucket |-> rotate_s3_backups(bucket, failAt, sideFail),
          events |-> <<"rotate:s3">> \o rotate_s3_events(bucket, failAt, sideFail)]
    ELSE [bucket |-> bucket, events |-> <<>>]

\* cleanup_temp_files: unlink every *.img.gz and *.tar.gz of TEMP_DIR
cleanup_temp_files(dir) == {f \in dir : f.sidecar}

(* ----------------------- backup_v2.py: main --------------------------- *)
Running == 0 - 1
Backends == {"s3", "gdrive"}
\* the backends of backup.py and restore.py
Backends1 == {"s3", "gdrive", "gcs"}
NoArgs == [type |-> "none", backend |-> "none", dry_run |-> FALSE,
           no_upload |-> FALSE, no_rotation |-> FALSE, keep_local |-> FALSE,
           enabled |-> {}]
V2Args == [type : BackupTypes, backend : Backends \cup {"all"},
           dry_run : BOOLEAN, no_upload : BOOLEAN, no_rotation : BOOLEAN,
           keep_local : {FALSE}, enabled : (SUBSET Backends) \ {{}}]
\* timestamp, manifest: the instance fields of both scripts' engines;
\* image_path: SystemBackup.image_path; results: upload_to_backends' results
NoEngine == [timestamp |-> 0, manifest |-> NoManifest, image_path |-> NoFile,
             results |-> <<>>]

Latest == [type |-> "latest", ts |-> 0]        \* the selector "latest"
NoTarget == "none"                              \* --target not given
NoRestoreArgs == [backend |-> "none", backup |-> NoFile, target |-> NoTarget,
                  dry_run |-> FALSE, no_verify |-> FALSE, verify_only |-> FALSE]
\* file: the downloaded artifact; manifest: the manifest found beside it;
\* digest: the SHA-256 of the downloaded bytes; verified: verify_backup's
\* outcome; target_disk: the device handed to the replay; confirmation: the
\* operator's answer
NoLocals == [file |-> NoFile, manifest |-> NoManifest, digest |-> SHA256(0),
             verified |-> "not run", target_disk |-> NoTarget,
             confirmation |-> "not asked"]

Init ==
    /\ clock = 0
    /\ runs = 0
    /\ manifestDir = {}
    /\ tempDir = {}
    /\ snapshots = {}
    /\ latest = NoSnapshot
    /\ s3 = {}
    /\ prog = "none"
    /\ pc = "idle"
    /\ args = NoArgs
    /\ engine = NoEngine
    /\ backup_file = NoFile
    /\ events = <<>>
    /\ exit = Running
    /\ startDir = {}
    /\ restoreDir = [p \in {"restore_v2", "restore"} |-> {}]
    /\ rargs = NoRestoreArgs
    /\ loc = NoLocals
    /\ remote = [b \in Backends1 |-> {}]
    /\ listing = <<>>

Tick ==
    /\ clock < MaxClock
    /\ clock' = clock + 1
    /\ UNCHANGED <<runs, manifestDir, tempDir, snapshots, latest, s3,
                   prog, pc, args, engine, backup_file, events, exit, startDir,
                   restoreVars, remote>>

\* the command lines of the runs that build up the manifest store: backups
\* of every type, dry or not, uploaded or not, to the default backend or,
\* with both backends enabled, to all of them
StoreArgs == {a \in V2Args : /\ \/ a.backend = "s3" /\ a.enabled = {"s3"}
                                \/ a.backend = "all" /\ a.enabled = {"s3", "gdrive"}
                             /\ ~a.no_rotation}

\* parse_args, BackupLogger(), BackupConfig(), BackupEngine(config, logger)
V2StartWith(argv) ==
    /\ pc = "idle"
    /\ runs < MaxRuns
    /\ \E a \in argv : args' = a
    /\ runs' = runs + 1
    /\ prog' = "backup_v2"
    /\ pc' = "create"
    /\ engine' = [NoEngine EXCEPT !.timestamp = clock]
    /\ backup_file' = NoFile
    /\ events' = <<>>
    /\ exit' = Running
    /\ startDir' = manifestDir
    /\ UNCHANGED <<clock, manifestDir, tempDir, snapshots, latest, s3, restoreVars, remote>>

\* "Create backup": the create_* method for args.type, then the check of
\* its return value
V2Create ==
    /\ prog = "backup_v2" /\ pc = "create"
    /\ \E e \in Outcomes :
         LET r == IF args.type = "full" THEN create_full_backup(Here, e)
                  ELSE IF args.type = "incremental"
                       THEN create_incremental_backup(Here, e)
                  ELSE create_differential_backup(Here, e)
         IN /\ manifestDir' = r.manifestDir
            /\ tempDir' = r.tempDir
            /\ snapshots' = r.snapshots
            /\ latest' = r.latest
            /\ engine' = [engine EXCEPT !.manifest = r.manifest]
            /\ backup_file' = r.ret
            /\ events' = events \o r.events
            /\ IF r.ret = NoFile
               THEN pc' = "done" /\ exit' = 1
               ELSE pc' = "upload" /\ exit' = exit
    /\ UNCHANGED <<clock, runs, s3, prog, args, startDir, restoreVars, remote>>


\* "Upload to backend": every requested backend that is enabled, in order
V2Upload ==
    /\ prog = "backup_v2" /\ pc = "upload"
    /\ \E how \in UploadOutcomes :
         LET wanted == IF args.backend = "all" THEN <<"s3", "gdrive">>
                       ELSE <<args.backend>>
             go == ~args.no_upload /\ ~args.dry_run
             first == IF go /\ wanted[1] \in args.enabled
                      THEN upload_to_backend(s3, backup_file, wanted[1], how)
                      ELSE [bucket |-> s3, success |-> TRUE, events |-> <<>>]
             second == IF go /\ Len(wanted) = 2 /\ wanted[2] \in args.enabled
                       THEN upload_to_backend(first.bucket, backup_file, wanted[2], how)
                       ELSE [bucket |-> first.bucket, success |-> TRUE, events |-> <<>>]
         IN /\ s3' = second.bucket
            /\ events' = events \o first.events \o second.events
    /\ pc' = "rotate"
    /\ UNCHANGED <<clock, runs, manifestDir, tempDir, snapshots, latest,
                   prog, args, engine, backup_file, exit, startDir, restoreVars, remote>>

\* "Rotate old backups"
V2Rotate ==
    /\ prog = "backup_v2" /\ pc = "rotate"
    /\ \E failAt \in 0..Cardinality(RotationVictims(s3)),
          sideFail \in SUBSET {o.filename : o \in RotationVictims(s3)} :
         LET r == IF ~args.no_rotation /\ ~args.dry_run
                  THEN rotate_backups(s3, args.backend, failAt, sideFail)
                  ELSE [bucket |-> s3, events |-> <<>>]
         IN /\ s3' = r.bucket
            /\ events' = events \o r.events
    /\ pc' = "cleanup"
    /\ UNCHANGED <<clock, runs, manifestDir, tempDir, snapshots, latest,
                   prog, args, engine, backup_file, exit, startDir, restoreVars, remote>>

\* "Cleanup", then "Backup process completed successfully"
V2Cleanup ==
    /\ prog = "backup_v2" /\ pc = "cleanup"
    /\ tempDir' = IF ~args.dry_run THEN cleanup_temp_files(tempDir) ELSE tempDir
    /\ events' = IF ~args.dry_run THEN Append(events, "cleanup") ELSE events
    /\ pc' = "done"
    /\ exit' = 0
    /\ UNCHANGED <<clock, runs, manifestDir, snapshots, latest, s3,
                   prog, args, engine, backup_file, startDir, restoreVars, remote>>

\* the process has ended; the next one may start
ProcessEnd ==
    /\ pc = "done"
    /\ pc' = "idle"
    /\ prog' = "none"
    /\ args' = NoArgs
    /\ engine' = NoEngine
    /\ backup_file' = NoFile
    /\ events' = <<>>
    /\ exit' = Running
    /\ startDir' = {}
    /\ rargs' = NoRestoreArgs
    /\ loc' = NoLocals
    /\ listing' = <<>>
    /\ UNCHANGED <<clock, runs, manifestDir, tempDir, snapshots, latest, s3,
                   restoreDir, remote>>

V2Start == V2StartWith(StoreArgs)


(* --------------------- backup.py: SystemBackup ------------------------ *)
\* create_system_image: "dd | <compressor> > file", checksum, manifest; the
\* manifest goes to the scratch directory.  utils.get_disk_info falls back to
\* /dev/sda when it cannot find the disk.  ret = NoFile: the method raised.
create_system_image(st, e) ==
    IF args.dry_run THEN [st EXCEPT !.ret = DryRunFile("full")]
    ELSE
      LET image_filename == FileName("full", engine.timestamp)
          bytes == IF e.dd_ok /\ e.pigz_ok THEN e.content ELSE 0
          output == LocalFile(image_filename, FALSE, bytes, NoManifest)
          ran == <<"capture">> \o
                 (IF e.dd_ok /\ e.pigz_ok THEN <<>> ELSE <<"capture_tool_failed">>)
          captured == [st EXCEPT !.tempDir = PutLocal(st.tempDir, output),
                                 !.image_path = image_filename,
                                 !.events = st.events \o ran]
          manifest == [type |-> "untyped", timestamp |-> engine.timestamp,
                       filename |-> image_filename,
                       source_disk |-> IF e.disk_ok THEN SourceDisk ELSE "/dev/sda",
                       checksum_sha256 |-> SHA256(bytes),
                       base_backup |-> AbsentRef]
      IN IF ~e.pigz_ok
         THEN [captured EXCEPT !.ret = NoFile]
         ELSE [captured EXCEPT
                 !.manifest = manifest,
                 !.tempDir = PutLocal(captured.tempDir,
                                      LocalFile(image_filename, TRUE, 0, manifest)),
                 !.events = captured.events \o <<"checksum", "manifest_write">>,
                 !.ret = image_filename]

\* a loop body that gives up once an earlier backend has failed
upload_one_stopping(up, b, how) ==
    LET wanted == args.backend \in {"all", b} /\ b \in args.enabled
        image == CHOOSE f \in tempDir : f.filename = engine.image_path /\ ~f.sidecar
        blob == S3Object(engine.image_path, FALSE, image.content, NoManifest, clock)
        side == S3Object(engine.image_path, TRUE, 0, engine.manifest, clock)
        WithBlob == PutObject(up.remote[b], blob)
    IN IF ~wanted \/ \E i \in 1..Len(up.results) : ~up.results[i].ok THEN up
       ELSE IF how = "blob_fail"
       THEN [up EXCEPT !.results = Append(@, [backend |-> b, ok |-> FALSE]),
                       !.events = @ \o <<"upload_failed:" \o b>>]
       ELSE [up EXCEPT !.remote[b] = IF how = "ok" THEN PutObject(WithBlob, side)
                                     ELSE WithBlob,
                       !.results = Append(@, [backend |-> b, ok |-> TRUE]),
                       !.events = @ \o <<"upload_blob:" \o b>>]

\* the body of upload_to_backends' loop for one backend: skipped when the
\* backend is not requested or not configured; else the image, and after a
\* successful upload the manifest (whose result is not looked at)
upload_one(up, b, how) ==
    LET wanted == args.backend \in {"all", b} /\ b \in args.enabled
        image == CHOOSE f \in tempDir : f.filename = engine.image_path /\ ~f.sidecar
        blob == S3Object(engine.image_path, FALSE, image.content, NoManifest, clock)
        side == S3Object(engine.image_path, TRUE, 0, engine.manifest, clock)
        WithBlob == PutObject(up.remote[b], blob)
    IN IF ~wanted THEN up
       ELSE IF how = "blob_fail"
       THEN [up EXCEPT !.results = Append(@, [backend |-> b, ok |-> FALSE]),
                       !.events = @ \o <<"upload_failed:" \o b>>]
       ELSE [up EXCEPT !.remote[b] = IF how = "ok" THEN PutObject(WithBlob, side)
                                     ELSE WithBlob,
                       !.results = Append(@, [backend |-> b, ok |-> TRUE]),
                       !.events = @ \o <<"upload_blob:" \o b>>]

\* upload_to_backends: False at once without an image; the backends in the
\* order of self.backends; all(results.values())
upload_to_backends(how) ==
    LET start == [remote |-> remote, results |-> <<>>, events |-> <<>>]
        has_image == /\ engine.image_path # NoFile
                     /\ \E f \in tempDir : f.filename = engine.image_path /\ ~f.sidecar
        done == upload_one(upload_one(upload_one(start, "s3", how["s3"]),
                                      "gdrive", how["gdrive"]),
                           "gcs", how["gcs"])
    IN IF ~has_image
       THEN [remote |-> remote, results |-> <<>>, events |-> <<>>, success |-> FALSE]
       ELSE [remote |-> done.remote, results |-> done.results, events |-> done.events,
             success |-> \A i \in 1..Len(done.results) : done.results[i].ok]

\* cleanup: nothing with keep_local, else the image and its manifest
cleanup(dir, keep_local) ==
    IF keep_local THEN dir
    ELSE {f \in dir : /\ ~(f.filename = engine.image_path /\ ~f.sidecar)
                      /\ ~(f.filename = engine.manifest.filename /\ f.sidecar)}

V1Args == [type : {"full"}, backend : Backends1 \cup {"all"},
           dry_run : BOOLEAN, no_upload : {FALSE}, no_rotation : {FALSE},
           keep_local : BOOLEAN, enabled : SUBSET Backends1]

\* SystemBackup(config_path)
V1StartWith(argv) ==
    /\ pc = "idle"
    /\ runs < MaxRuns
    /\ \E a \in argv : args' = a
    /\ runs' = runs + 1
    /\ prog' = "backup"
    /\ pc' = "create"
    /\ engine' = [NoEngine EXCEPT !.timestamp = clock]
    /\ backup_file' = NoFile
    /\ events' = <<>>
    /\ exit' = Running
    /\ startDir' = manifestDir
    /\ UNCHANGED <<clock, manifestDir, tempDir, snapshots, latest, s3,
                   restoreVars, remote>>

\* run_backup: "Create system image"; an exception ends the run
V1Create ==
    /\ prog = "backup" /\ pc = "create"
    /\ \E e \in Outcomes :
         LET r == create_system_image(Here, e)
         IN /\ tempDir' = r.tempDir
            /\ engine' = [engine EXCEPT !.manifest = r.manifest,
                                        !.image_path = r.image_path]
            /\ backup_file' = r.ret
            /\ events' = events \o r.events
            /\ IF r.ret = NoFile
               THEN pc' = "done" /\ exit' = 1
               ELSE pc' = "upload" /\ exit' = exit
    /\ UNCHANGED <<clock, runs, manifestDir, snapshots, latest, s3, prog, args,
                   startDir, restoreVars, remote>>

\* run_backup: "Upload to backends"
V1Upload ==
    /\ prog = "backup" /\ pc = "upload"
    /\ \E how \in [Backends1 -> UploadOutcomes] :
         LET u == upload_to_backends(how)
         IN /\ remote' = u.remote
            /\ engine' = [engine EXCEPT
                            !.results = Append(u.results,
                                               [backend |-> "all", ok |-> u.success])]
            /\ events' = events \o u.events
    /\ pc' = "cleanup"
    /\ UNCHANGED <<clock, runs, manifestDir, tempDir, snapshots, latest, s3,
                   prog, args, backup_file, exit, startDir, restoreVars>>

\* run_backup: "Cleanup" and the return value
V1Finish ==
    /\ prog = "backup" /\ pc = "cleanup"
    /\ tempDir' = IF ~args.dry_run THEN cleanup(tempDir, args.keep_local)
                  ELSE tempDir
    /\ events' = IF ~args.dry_run /\ ~args.keep_local
                 THEN Append(events, "cleanup") ELSE events
    /\ exit' = IF engine.results[Len(engine.results)].ok THEN 0 ELSE 1
    /\ pc' = "done"
    /\ UNCHANGED <<clock, runs, manifestDir, snapshots, latest, s3,
                   prog, args, engine, backup_file, startDir, restoreVars, remote>>

(* ------------------ restore_v2.py: RestoreEngine ---------------------- *)
\* a manifest that has no 'checksum_sha256' entry
NoChecksum == <<"none", 0>>

DownloadOutcomes == {"ok", "blob_fail", "sidecar_fail"}
\* what the operator types at the prompt; "EOF" is a closed standard input
Answers == {"YES", " YES ", "yes", "", "EOF"}
\* str.strip()
Strip(t) == IF t = " YES " THEN "YES" ELSE t

\* sorted(..., key=last modified, reverse=True)[0] of a listing in key order
First(backups) ==
    IF backups = {} THEN NoFile
    ELSE (CHOOSE b \in backups : \A a \in backups : a = b \/ ListedBefore(b, a)).filename

\* list_backups_s3: the keys ending in .img.gz or .tar.gz
list_backups_s3(bucket) == {o \in bucket : ~o.sidecar}

select_backup_or_latest(backups, selector) ==
    IF \E b \in backups : b.filename = selector THEN selector
    ELSE First(backups)

\* "Select backup": backups[0] for "latest", else the entry of that filename
select_backup(backups, selector) ==
    IF selector = Latest THEN First(backups)
    ELSE IF \E b \in backups : b.filename = selector THEN selector
    ELSE NoFile

\* download_from_s3: the artifact, then its manifest; a failure of the
\* manifest download is only a warning
download_from_s3(bucket, dir, key, how) ==
    LET blob == {o \in bucket : o.filename = key /\ ~o.sidecar}
        side == {o \in bucket : o.filename = key /\ o.sidecar}
        got == PutLocal(dir, LocalFile(key, FALSE,
                                       (CHOOSE o \in blob : TRUE).content, NoManifest))
    IN IF blob = {} \/ how = "blob_fail"
       THEN [dir |-> dir, ret |-> NoFile]
       ELSE IF side = {} \/ how = "sidecar_fail"
       THEN [dir |-> got, ret |-> key]
       ELSE [dir |-> PutLocal(got, LocalFile(key, TRUE, 0,
                                             (CHOOSE o \in side : TRUE).manifest)),
             ret |-> key]

\* the comparison of the two digests
ChecksumResult_ignored(actual, expected) == "passed"

ChecksumResult(actual, expected) ==
    IF actual = expected THEN "passed" ELSE "failed"

verify_backup_v2_unreported(dir, file) ==
    LET manifest_file == {f \in dir : f.filename = file /\ f.sidecar}
        image == CHOOSE f \in dir : f.filename = file /\ ~f.sidecar
    IN IF manifest_file = {} THEN "passed"
       ELSE ChecksumResult(SHA256(image.content),
                           (CHOOSE f \in manifest_file : TRUE).manifest.checksum_sha256)

\* verify_backup: True without a manifest file or without a checksum in it.
\* The value is what the method logs: "skipped" (a warning; it returns
\* True), "passed" (it returns True) or "failed" (it returns False).
verify_backup_v2(dir, file) ==
    LET manifest_file == {f \in dir : f.filename = file /\ f.sidecar}
        image == CHOOSE f \in dir : f.filename = file /\ ~f.sidecar
        expected_checksum == (CHOOSE f \in manifest_file : TRUE).manifest.checksum_sha256
    IN IF manifest_file = {} THEN "skipped"
       ELSE IF expected_checksum = NoChecksum THEN "skipped"
       ELSE ChecksumResult(SHA256(image.content), expected_checksum)

\* restore_full_backup: dry run, confirmation, then "pigz -dc | dd of=target";
\* what it did and whether it reports success
restore_full_backup(dry_run, answer, replay_ok) ==
    IF dry_run THEN [events |-> <<>>, success |-> TRUE, crashed |-> FALSE]
    ELSE IF answer = "EOF"
    THEN \* input() raises EOFError outside the try block
         [events |-> <<"confirm">>, success |-> FALSE, crashed |-> TRUE]
    ELSE IF answer # "YES"
    THEN [events |-> <<"confirm">>, success |-> FALSE, crashed |-> FALSE]
    ELSE [events |-> <<"confirm", "replay_dd">>, success |-> replay_ok,
          crashed |-> FALSE]

\* restore_incremental_backup: dry run, else "tar -xzf file -C /"
restore_incremental_backup(dry_run, replay_ok) ==
    IF dry_run THEN [events |-> <<>>, success |-> TRUE, crashed |-> FALSE]
    ELSE [events |-> <<"replay_tar">>, success |-> replay_ok, crashed |-> FALSE]

\* the manifest file beside a downloaded artifact, and the artifact's digest
ManifestBeside(dir, file) ==
    IF \E f \in dir : f.filename = file /\ f.sidecar
    THEN (CHOOSE f \in dir : f.filename = file /\ f.sidecar).manifest
    ELSE NoManifest

DigestOf(dir, file) ==
    SHA256((CHOOSE f \in dir : f.filename = file /\ ~f.sidecar).content)

(* ----------------------- restore_v2.py: main -------------------------- *)
Disks == {"/dev/sda", "/dev/vdb"}
\* the names an operator may ask for
\* (the third differs from the first in the case of its letters only)
Selectors == {Latest, FileName("full", 0), FileName("incremental", 1),
              FileName("FULL", 0)}
R2Args == [backend : {"s3"}, backup : Selectors, target : Disks \cup {NoTarget},
           dry_run : BOOLEAN, no_verify : BOOLEAN, verify_only : {FALSE}]

R2Start ==
    /\ pc = "idle"
    /\ runs < MaxRuns
    /\ \E a \in R2Args : rargs' = a
    /\ runs' = runs + 1
    /\ prog' = "restore_v2"
    /\ pc' = "download"
    /\ loc' = NoLocals
    /\ events' = <<>>
    /\ exit' = Running
    /\ UNCHANGED <<clock, s3, restoreDir, backupVars, remote, listing>>

\* "Get backup list", "Select backup", "Download backup"
R2Download ==
    /\ prog = "restore_v2" /\ pc = "download"
    /\ \E how \in DownloadOutcomes :
         LET selected == select_backup(list_backups_s3(s3), rargs.backup)
             d == download_from_s3(s3, restoreDir[prog], selected, how)
         IN IF selected = NoFile \/ d.ret = NoFile
            THEN /\ pc' = "done" /\ exit' = 1
                 /\ UNCHANGED <<restoreDir, loc, events>>
            ELSE /\ restoreDir' = [restoreDir EXCEPT ![prog] = d.dir]
                 /\ loc' = [loc EXCEPT !.file = d.ret,
                                       !.manifest = ManifestBeside(d.dir, d.ret),
                                       !.digest = DigestOf(d.dir, d.ret)]
                 /\ events' = Append(events, "download")
                 /\ pc' = "verify" /\ exit' = exit
    /\ UNCHANGED <<clock, runs, s3, prog, rargs, backupVars, remote, listing>>

\* "Verify backup"
R2Verify ==
    /\ prog = "restore_v2" /\ pc = "verify"
    /\ LET v == IF rargs.no_verify THEN "not run"
                ELSE verify_backup_v2(restoreDir[prog], loc.file)
       IN /\ loc' = [loc EXCEPT !.verified = v]
          /\ IF v = "failed" THEN pc' = "done" /\ exit' = 1
             ELSE pc' = "restore" /\ exit' = exit
    /\ UNCHANGED <<clock, runs, s3, prog, rargs, events, restoreDir, backupVars, remote, listing>>

\* "Determine backup type", the restore itself, "Cleanup", the exit status
R2Restore ==
    /\ prog = "restore_v2" /\ pc = "restore"
    /\ \E answer \in Answers, replay_ok \in BOOLEAN :
         LET is_full_backup == loc.file.type = "full"
             r == IF is_full_backup
                  THEN restore_full_backup(rargs.dry_run, answer, replay_ok)
                  ELSE restore_incremental_backup(rargs.dry_run, replay_ok)
         IN IF is_full_backup /\ rargs.target = NoTarget
            THEN /\ exit' = 1
                 /\ UNCHANGED <<loc, events, restoreDir>>
            ELSE /\ loc' = [loc EXCEPT
                              !.target_disk = IF is_full_backup THEN rargs.target ELSE "/",
                              !.confirmation = IF is_full_backup /\ ~rargs.dry_run
                                               THEN answer ELSE @]
                 /\ events' = events \o r.events \o
                              (IF ~rargs.dry_run /\ ~r.crashed THEN <<"cleanup">> ELSE <<>>)
                 /\ restoreDir' = IF ~rargs.dry_run /\ ~r.crashed
                                  THEN [restoreDir EXCEPT ![prog] = {}]
                                  ELSE restoreDir
                 /\ exit' = IF r.success THEN 0 ELSE 1
    /\ pc' = "done"
    /\ UNCHANGED <<clock, runs, s3, prog, rargs, backupVars, remote, listing>>

(* -------------------- restore.py: SystemRestore ----------------------- *)
\* S3Backend.list_backups: only the keys ending in .img.gz
list_backups(bucket) == {o \in bucket : ~o.sidecar /\ o.filename.type = "full"}

\* the name "<image name>.manifest.json" of an image's manifest object
ManifestName(f) == [type |-> "manifest.json", ts |-> f.ts]

\* the name under which a backend holds an object
ObjName(o) == IF o.sidecar THEN ManifestName(o.filename) ELSE o.filename

\* backend.get_manifest(remote_name): the content of the object named
\* "<remote_name>.manifest.json", None (NoManifest) when there is none
get_manifest(bucket, remote_name) ==
    IF \E o \in bucket : o.sidecar /\ o.filename = remote_name
    THEN (CHOOSE o \in bucket : o.sidecar /\ o.filename = remote_name).manifest
    ELSE NoManifest

\* the orders in which a set of objects can be listed
Orders(objs) ==
    {l \in [1..Cardinality(objs) -> objs] :
       \A i, j \in 1..Cardinality(objs) : i # j => l[i] # l[j]}

\* S3Backend.list_backups, GCSBackend.list_backups: the names ending in
\* .img.gz, sorted by modification time with the newest first (a stable
\* sort of a listing in name order)
s3_list_backups(bucket) ==
    {l \in Orders(list_backups(bucket)) :
       \A i, j \in DOMAIN l : ListedBefore(l[j], l[i]) => j < i}

\* GDriveBackend.list_backups: the files whose name contains '.img.gz',
\* which the images' manifests (<image>.img.gz.manifest.json) do as well,
\* in the order 'modifiedTime desc' (files of one time in any order)
LaterModified(a, b) == a.modified > b.modified

gdrive_list_backups(bucket) ==
    {l \in Orders({o \in bucket : o.filename.type = "full"}) :
       \A i, j \in DOMAIN l : LaterModified(l[j], l[i]) => j < i}

\* backend.list_backups() of the backend of that name
backend_list_backups(backend, bucket) ==
    IF backend = "gdrive" THEN gdrive_list_backups(bucket)
    ELSE s3_list_backups(bucket)

\* what backend.download of restore.py's backends can do: as above, or
\* fail part-way through the transfer.  GDriveBackend.download opens
\* local_path for writing itself and fetches chunk by chunk, and an error in
\* a chunk leaves what was written; S3Backend and GCSBackend hand local_path
\* to their library's download call and remove nothing themselves.
DownloadOutcomes1 == DownloadOutcomes \cup {"blob_partial"}

\* download_backup: "latest" is the first entry of the backend's listing
\* (backups); the object of that name, then the manifest, which is read
\* from the scratch directory afterwards
download_backup(bucket, dir, backup_name, backups, how) ==
    LET name == IF backup_name # Latest THEN backup_name
                ELSE IF backups = <<>> THEN NoFile
                ELSE ObjName(backups[1])
        d == download_from_s3(bucket, dir, name, how)
        manifest_path == {f \in d.dir : f.filename = name /\ f.sidecar}
        \* a name that is a manifest's: the manifest object is the download
        json == {o \in bucket : o.sidecar /\ ObjName(o) = name}
    IN IF name = NoFile THEN [dir |-> dir, ret |-> NoFile, manifest |-> NoManifest]
       ELSE IF how = "blob_partial"
       THEN IF rargs.backend = "gdrive" /\ \E o \in bucket : ObjName(o) = name
            THEN [dir |-> PutLocal(dir, LocalFile(name, FALSE, 0, NoManifest)),
                  ret |-> NoFile, manifest |-> NoManifest]
            ELSE [dir |-> dir, ret |-> NoFile, manifest |-> NoManifest]
       ELSE IF name.type = "manifest.json"
       THEN IF json = {} \/ how = "blob_fail"
            THEN [dir |-> dir, ret |-> NoFile, manifest |-> NoManifest]
            ELSE [dir |-> PutLocal(dir, LocalFile(name, FALSE, 0,
                                                  (CHOOSE o \in json : TRUE).manifest)),
                  ret |-> name, manifest |-> NoManifest]
       ELSE IF d.ret = NoFile
       THEN [dir |-> dir, ret |-> NoFile, manifest |-> NoManifest]
       ELSE [dir |-> d.dir, ret |-> name,
             manifest |-> IF manifest_path = {} THEN NoManifest
                          ELSE (CHOOSE f \in manifest_path : TRUE).manifest]

\* verify_backup, with utils.verify_checksum
verify_backup(dir, file, manifest) ==
    LET image == CHOOSE f \in dir : f.filename = file /\ ~f.sidecar
    IN IF manifest = NoManifest THEN "skipped"
       ELSE IF manifest.checksum_sha256 = NoChecksum THEN "skipped"
       ELSE ChecksumResult(SHA256(image.content), manifest.checksum_sha256)

\* "Determine target disk"
determine_target(target_disk, manifest) ==
    IF target_disk # NoTarget THEN target_disk
    ELSE IF manifest # NoManifest /\ manifest.source_disk # NoDisk
    THEN manifest.source_disk
    ELSE "/dev/sda"

\* a restore_image that does not look at verify_only
restore_image_always(verify_only, answer, replay_ok) ==
    IF answer = "EOF"
    THEN [events |-> <<"confirm">>, success |-> FALSE, crashed |-> TRUE]
    ELSE IF Strip(answer) # "YES"
    THEN [events |-> <<"confirm">>, success |-> FALSE, crashed |-> FALSE]
    ELSE [events |-> <<"confirm", "replay_dd">>, success |-> replay_ok,
          crashed |-> FALSE]

\* restore_image: verify-only, confirmation, then "<decompressor> -dc | dd"
restore_image(verify_only, answer, replay_ok) ==
    IF verify_only THEN [events |-> <<>>, success |-> TRUE, crashed |-> FALSE]
    ELSE IF answer = "EOF"
    THEN \* input() raises EOFError, which run_restore catches
         [events |-> <<"confirm">>, success |-> FALSE, crashed |-> TRUE]
    ELSE IF Strip(answer) # "YES"
    THEN [events |-> <<"confirm">>, success |-> FALSE, crashed |-> FALSE]
    ELSE [events |-> <<"confirm", "replay_dd">>, success |-> replay_ok,
          crashed |-> FALSE]

R1Args == [backend : {"s3"}, backup : Selectors, target : Disks \cup {NoTarget},
           dry_run : {FALSE}, no_verify : {FALSE}, verify_only : BOOLEAN]

\* restore.py --backend <name> --backup <name> [--target ..] [--verify-only]
R1StartWith(argv) ==
    /\ pc = "idle"
    /\ runs < MaxRuns
    /\ \E a \in argv : rargs' = a
    /\ runs' = runs + 1
    /\ prog' = "restore"
    /\ pc' = "download"
    /\ loc' = NoLocals
    /\ events' = <<>>
    /\ exit' = Running
    /\ UNCHANGED <<clock, s3, restoreDir, backupVars, remote, listing>>

\* run_restore: "Download backup"
R1Download ==
    /\ prog = "restore" /\ pc = "download"
    /\ \E how \in DownloadOutcomes1,
          backups \in backend_list_backups(rargs.backend, remote[rargs.backend]) :
         LET d == download_backup(remote[rargs.backend], restoreDir[prog],
                                  rargs.backup, backups, how)
         IN IF d.ret = NoFile
            THEN /\ pc' = "done" /\ exit' = 1
                 /\ restoreDir' = [restoreDir EXCEPT ![prog] = d.dir]
                 /\ UNCHANGED <<loc, events>>
            ELSE /\ restoreDir' = [restoreDir EXCEPT ![prog] = d.dir]
                 /\ loc' = [loc EXCEPT !.file = d.ret, !.manifest = d.manifest,
                                       !.digest = DigestOf(d.dir, d.ret)]
                 /\ events' = Append(events, "download")
                 /\ pc' = "verify" /\ exit' = exit
    /\ UNCHANGED <<clock, runs, s3, prog, rargs, backupVars, remote, listing>>

\* run_restore: "Verify backup"
R1Verify ==
    /\ prog = "restore" /\ pc = "verify"
    /\ LET v == verify_backup(restoreDir[prog], loc.file, loc.manifest)
       IN /\ loc' = [loc EXCEPT !.verified = v]
          /\ IF v = "failed" THEN pc' = "done" /\ exit' = 1
             ELSE pc' = "restore" /\ exit' = exit
    /\ UNCHANGED <<clock, runs, s3, prog, rargs, events, restoreDir, backupVars, remote, listing>>

\* run_restore: "Determine target disk", "Restore image", "Cleanup"
R1Restore ==
    /\ prog = "restore" /\ pc = "restore"
    /\ \E answer \in Answers, replay_ok \in BOOLEAN :
         LET r == restore_image(rargs.verify_only, answer, replay_ok)
         IN /\ loc' = [loc EXCEPT
                         !.target_disk = determine_target(rargs.target, loc.manifest),
                         !.confirmation = IF ~rargs.verify_only THEN answer ELSE @]
            /\ events' = events \o r.events \o
                         (IF ~rargs.verify_only /\ ~r.crashed THEN <<"cleanup">> ELSE <<>>)
            /\ restoreDir' = IF ~rargs.verify_only /\ ~r.crashed
                             THEN [restoreDir EXCEPT ![prog] = {}]
                             ELSE restoreDir
            /\ exit' = IF r.success THEN 0 ELSE 1
    /\ pc' = "done"
    /\ UNCHANGED <<clock, runs, s3, prog, rargs, backupVars, remote, listing>>

R1Start == R1StartWith(R1Args)

\* restore.py --list --backend <name>: SystemRestore.list_backups
R1List ==
    /\ pc = "idle"
    /\ runs < MaxRuns
    /\ \E b \in Backends1 :
         /\ rargs' = [NoRestoreArgs EXCEPT !.backend = b]
         /\ listing' \in backend_list_backups(b, remote[b])
    /\ runs' = runs + 1
    /\ prog' = "restore"
    /\ pc' = "done"
    /\ loc' = NoLocals
    /\ events' = <<"list">>
    /\ exit' = 0
    /\ UNCHANGED <<clock, s3, restoreDir, backupVars, remote>>

(* ------------------------- making backups ----------------------------- *)
\* backup.py run with two configured backends, asked for all backends or
\* for one that is not configured
StoreArgs1 == {a \in V1Args : /\ a.backend \in {"all", "gdrive"}
                              /\ a.enabled = {"s3", "gcs"}
                              /\ ~a.keep_local}

V1Start == V1StartWith(StoreArgs1)

NextBackup ==
    \/ Tick
    \/ V2Start
    \/ V2Create
    \/ V2Upload
    \/ V2Rotate
    \/ V2Cleanup
    \/ ProcessEnd

SpecBackup == Init /\ [][NextBackup]_vars

\* the same machine running backup.py
NextBackup1 ==
    \/ Tick
    \/ V1Start
    \/ V1Create
    \/ V1Upload
    \/ V1Finish
    \/ ProcessEnd

SpecBackup1 == Init /\ [][NextBackup1]_vars

(* --------------------- restoring from a bucket ------------------------ *)
\* The bucket a restore finds: every artifact may be there or not, with or
\* without its manifest; the manifest may record the digest of the artifact,
\* another digest or none, and a full backup's manifest may lack the disk.
StoredManifest(filename, checksum, disk) ==
    [type |-> filename.type, timestamp |-> filename.ts, filename |-> filename,
     source_disk |-> disk, checksum_sha256 |-> checksum, base_backup |-> AbsentRef]

StoredAs(filename) ==
    LET blobs == {S3Object(filename, FALSE, c, NoManifest, filename.ts) :
                    c \in 1..MaxContent}
        sides == {S3Object(filename, TRUE, 0, StoredManifest(filename, sum, disk),
                           filename.ts) :
                    sum \in {SHA256(0), SHA256(1), NoChecksum},
                    disk \in IF filename.type = "full" THEN {SourceDisk, NoDisk}
                             ELSE {NoDisk}}
    IN {{}} \cup {{b} : b \in blobs} \cup {{b, m} : b \in blobs, m \in sides}

RestoreBuckets ==
    {a \cup b : a \in StoredAs(FileName("full", 0)),
                b \in StoredAs(FileName("incremental", 1))}

InitRestore ==
    /\ clock = 0
    /\ runs = 0
    /\ manifestDir = {}
    /\ tempDir = {}
    /\ snapshots = {}
    /\ latest = NoSnapshot
    /\ s3 \in RestoreBuckets
    /\ prog = "none"
    /\ pc = "idle"
    /\ args = NoArgs
    /\ engine = NoEngine
    /\ backup_file = NoFile
    /\ events = <<>>
    /\ exit = Running
    /\ startDir = {}
    /\ restoreDir = [p \in {"restore_v2", "restore"} |-> {}]
    /\ rargs = NoRestoreArgs
    /\ loc = NoLocals
    /\ remote = [b \in Backends1 |-> s3]
    /\ listing = <<>>

NextRestore ==
    \/ R2Start
    \/ R2Download
    \/ R2Verify
    \/ R2Restore
    \/ R1Start
    \/ R1Download
    \/ R1Verify
    \/ R1Restore
    \/ ProcessEnd

SpecRestore == InitRestore /\ [][NextRestore]_vars

(* ============================ restoring =============================== *)
Restoring == prog \in {"restore_v2", "restore"} /\ loc.file # NoFile
Replayed == HasEvent("replay_dd") \/ HasEvent("replay_tar")

\* the manifest read beside the downloaded artifact records a checksum, and
\* the artifact's SHA-256 is another one
Mismatch ==
    /\ Restoring
    /\ loc.manifest # NoManifest
    /\ loc.manifest.checksum_sha256 # NoChecksum
    /\ loc.manifest.checksum_sha256 # loc.digest

\* no replay has run, and the process, once ended, has ended in failure
Aborted ==
    /\ ~Replayed
    /\ pc = "done" => exit = 1

C2_WriteOnlyAfterYES ==
    (Restoring /\ Replayed) => (loc.confirmation = "YES" /\ ~rargs.dry_run)

\* C3: a restore onto a device that is started without --target and whose
\* manifest is absent or records no source disk fails and never replays
\* onto a device it picked itself.
C3_NoTargetFails ==
    (/\ Restoring /\ ~rargs.verify_only
     /\ prog = "restore" \/ loc.file.type = "full"
     /\ rargs.target = NoTarget
     /\ loc.manifest = NoManifest \/ loc.manifest.source_disk = NoDisk)
    => /\ ~HasEvent("replay_dd")
       /\ pc = "done" => exit = 1

(* ======================= lineage and manifests ======================== *)
\* the running backup_v2 process has returned from its create_* method with
\* an artifact (not a dry run, not a failure)
Created ==
    /\ prog = "backup_v2"
    /\ pc \in {"upload", "rotate", "cleanup", "done"}
    /\ IsRealFile(backup_file)

\* the manifests of the given type with the greatest timestamp
MostRecent(dir, types) ==
    {m \in dir : /\ m.type \in types
                 /\ \A o \in dir : o.type \in types => o.timestamp <= m.timestamp}


\* C4: a backup made by create_differential while a Full manifest exists
\* records the most recent Full manifest as its base, also when an
\* Incremental manifest was written after that Full.
C4_DifferentialBaseIsLastFull ==
    (Created /\ args.type = "differential"
       /\ \E m \in startDir : m.type = "full")
    => engine.manifest.base_backup \in
         {m.filename : m \in MostRecent(startDir, {"full"})}

\* C5: a backup made by create_differential while no Full manifest exists
\* has a manifest of type Full, and that manifest is in the store.
C5_DifferentialFallsBackToFull ==
    (Created /\ args.type = "differential"
       /\ ~\E m \in startDir : m.type = "full")
    => /\ engine.manifest.type = "full"
       /\ engine.manifest \in manifestDir

C5_Witness ==
    /\ Created /\ args.type = "differential"
    /\ ~\E m \in startDir : m.type = "full"
    /\ startDir # {}

\* C6: the manifest of a backup made by create_full has no base reference,
\* whatever manifests already exist; so no Full manifest of the store has one.
C6_FullHasNoBase ==
    /\ (Created /\ backup_file.type = "full")
         => engine.manifest.base_backup \in {AbsentRef, NullRef}
    /\ \A m \in manifestDir :
         m.type = "full" => m.base_backup \in {AbsentRef, NullRef}

C6_Witness ==
    /\ Created /\ args.type = "full"
    /\ startDir # {}
    /\ engine.manifest \in manifestDir

\* C7: create_incremental records as base a manifest with the greatest
\* timestamp in the store, of whatever type, and a null base when the store
\* is empty.
C7_IncrementalBaseIsMostRecent ==
    (Created /\ args.type = "incremental")
    => IF startDir = {}
       THEN engine.manifest.base_backup = NullRef
       ELSE engine.manifest.base_backup \in
              {m.filename : m \in MostRecent(startDir, {"full", "incremental"})}

\* C8: every successful create adds one new manifest to the store and
\* leaves the manifests that were there in place.
C8_CreateAddsOneManifest ==
    Created => /\ startDir \subseteq manifestDir
               /\ Cardinality(manifestDir) = Cardinality(startDir) + 1

\* C9: a run whose capture step failed ends in failure and leaves the
\* manifest store as it was.
C9_FailedCaptureWritesNoManifest ==
    HasEvent("capture_tool_failed")
    => /\ manifestDir = startDir
       /\ ~HasEvent("manifest_write")
       /\ backup_file = NoFile
       /\ exit = 1

\* the manifest of the running backup is a file on the local disk
ManifestOnDisk ==
    \/ \E m \in manifestDir : m.filename = backup_file
    \/ \E f \in tempDir : f.sidecar /\ f.filename = backup_file

\* C10: in every backup run the manifest is written only after the checksum
\* of the artifact was computed, and it is a file on the local disk before
\* any upload of the run begins (and stays one until the run cleans up).
C10_ManifestBeforeUpload ==
    /\ \A i \in 1..Len(events) :
         events[i] = "manifest_write" => \E j \in 1..(i-1) : events[j] = "checksum"
    /\ \A i \in 1..Len(events) :
         IsUpload(events[i]) =>
           /\ \E j \in 1..(i-1) : events[j] = "manifest_write"
           /\ HasEvent("cleanup") \/ ManifestOnDisk

C10_Witness ==
    /\ prog = "backup_v2"
    /\ HasEvent("manifest_write")
    /\ HasEvent("upload_blob:s3")

(* ============================ rotation ================================ *)
\* The bucket a rotating run finds: up to MaxStored full backups uploaded
\* one per second by earlier runs (started with --no-rotation, so that more
\* than MAX_BACKUPS can be there), with or without their manifests.
OldName(i) == FileName("full", 0 - i)

OldBucket(n, sides) ==
    {S3Object(OldName(i), FALSE, 1, NoManifest, 0 - i) : i \in 1..n}
    \cup (IF sides
          THEN {S3Object(OldName(i), TRUE, 0,
                         StoredManifest(OldName(i), SHA256(1), SourceDisk), 0 - i) :
                  i \in 1..n}
          ELSE {})

InitRotate ==
    /\ clock = 0
    /\ runs = 0
    /\ manifestDir = {}
    /\ tempDir = {}
    /\ snapshots = {}
    /\ latest = NoSnapshot
    /\ \E n \in 0..MaxStored, sides \in BOOLEAN : s3 = OldBucket(n, sides)
    /\ prog = "none"
    /\ pc = "idle"
    /\ args = NoArgs
    /\ engine = NoEngine
    /\ backup_file = NoFile
    /\ events = <<>>
    /\ exit = Running
    /\ startDir = {}
    /\ restoreDir = [p \in {"restore_v2", "restore"} |-> {}]
    /\ rargs = NoRestoreArgs
    /\ loc = NoLocals
    /\ remote = [b \in Backends1 |-> {}]
    /\ listing = <<>>

\* full backups uploaded to S3 and rotated
RotateArgs == {a \in V2Args : /\ a.type = "full" /\ a.backend = "s3"
                              /\ a.enabled = {"s3"} /\ ~a.no_rotation
                              /\ ~a.dry_run /\ ~a.no_upload}

V2StartRotate == V2StartWith(RotateArgs)

NextRotate ==
    \/ Tick
    \/ V2StartRotate
    \/ V2Create
    \/ V2Upload
    \/ V2Rotate
    \/ V2Cleanup
    \/ ProcessEnd

SpecRotate == InitRotate /\ [][NextRotate]_vars

DistinctTimes(bucket) ==
    \A a, b \in Blobs(bucket) : a # b => a.modified # b.modified

\* the MAX_BACKUPS most recently modified backups of a bucket
Newest(bucket) ==
    {b \in Blobs(bucket) :
       Cardinality({a \in Blobs(bucket) : a.modified > b.modified}) < MAX_BACKUPS}

\* a bucket less the backups that are not among the newest, and less
\* their manifests
WithoutOldest(bucket) ==
    {o \in bucket : \/ \E b \in Newest(bucket) : b.filename = o.filename
                    \/ ~\E b \in Blobs(bucket) : b.filename = o.filename}

\* a step of the run that is a rotation of the S3 bucket in which no
\* delete_object raised
RotatedCleanly ==
    /\ prog = "backup_v2" /\ pc = "rotate" /\ pc' = "cleanup"
    /\ ~args.no_rotation /\ ~args.dry_run /\ args.backend = "s3"
    /\ \A i \in 1..Len(events') :
         events'[i] \notin {"rotate_failed:s3", "rotate_manifest_failed:s3"}

\* C12: a rotation in which no delete fails, of a bucket whose N backups
\* have distinct last-modified times, deletes exactly the N - MAX_BACKUPS
\* oldest backups with their manifests when N > MAX_BACKUPS and nothing
\* otherwise: min(N, MAX_BACKUPS) backups remain, the most recent ones.
C12_RotationKeepsNewest ==
    [][(RotatedCleanly /\ DistinctTimes(s3))
       => /\ s3' = WithoutOldest(s3)
          /\ Cardinality(Blobs(s3')) =
               (IF Cardinality(Blobs(s3)) > MAX_BACKUPS THEN MAX_BACKUPS
                ELSE Cardinality(Blobs(s3)))]_vars

C12_Witness ==
    /\ prog = "backup_v2" /\ pc = "cleanup"
    /\ HasEvent("rotate_delete:s3")
    /\ ~HasEvent("rotate_failed:s3") /\ ~HasEvent("rotate_manifest_failed:s3")
    /\ Cardinality(Blobs(s3)) = MAX_BACKUPS
    /\ \E o \in s3 : o.sidecar
    /\ ~\E o \in s3 : o.filename = OldName(MaxStored)

\* C13: when one delete fails during a rotation, every other backup
\* selected for deletion is still deleted: at most the one whose delete
\* failed is left beyond the MAX_BACKUPS newest.
C13_RotationContinuesAfterFailure ==
    (prog = "backup_v2" /\ pc \in {"cleanup", "done"} /\ HasEvent("rotate_failed:s3"))
    => Cardinality(RotationVictims(s3)) <= 1

\* C11: rotation runs only in a backup run, never in a dry run, and only
\* after the run's upload was made and completed.
C11_RotationOnlyAfterUpload ==
    HasEvent("rotate:s3")
    => /\ prog = "backup_v2"
       /\ ~args.dry_run
       /\ HasEvent("upload_blob:s3")
       /\ ~HasEvent("upload_failed:s3")


(* ============================ listings ================================ *)
\* What a backend of backup.py holds: of each image, nothing, the image, or
\* the image and its manifest, uploaded at any of the times.
V1StoredAs(filename) ==
    {{}} \cup {{S3Object(filename, FALSE, 1, NoManifest, t)} : t \in Times}
         \cup {{S3Object(filename, FALSE, 1, NoManifest, t),
                 S3Object(filename, TRUE, 0,
                          StoredManifest(filename, SHA256(1), SourceDisk), t)} :
                  t \in Times}

V1Buckets ==
    {a \cup b : a \in V1StoredAs(FileName("full", 0)),
                b \in V1StoredAs(FileName("full", 1))}

InitRestore1 ==
    /\ clock = 0
    /\ runs = 0
    /\ manifestDir = {}
    /\ tempDir = {}
    /\ snapshots = {}
    /\ latest = NoSnapshot
    /\ s3 = {}
    /\ prog = "none"
    /\ pc = "idle"
    /\ args = NoArgs
    /\ engine = NoEngine
    /\ backup_file = NoFile
    /\ events = <<>>
    /\ exit = Running
    /\ startDir = {}
    /\ restoreDir = [p \in {"restore_v2", "restore"} |-> {}]
    /\ rargs = NoRestoreArgs
    /\ loc = NoLocals
    /\ \E bucket \in V1Buckets : remote = [b \in Backends1 |-> bucket]
    /\ listing = <<>>

\* restore.py against each of its backends
R1ArgsAny == [backend : Backends1, backup : {Latest, FileName("full", 0)},
              target : {NoTarget, "/dev/vdb"}, dry_run : {FALSE},
              no_verify : {FALSE}, verify_only : BOOLEAN]

R1StartAny == R1StartWith(R1ArgsAny)

NextRestore1 ==
    \/ R1StartAny
    \/ R1List
    \/ R1Download
    \/ R1Verify
    \/ R1Restore
    \/ ProcessEnd

SpecRestore1 == InitRestore1 /\ [][NextRestore1]_vars

\* C14: whatever the backend, a restore of "latest" downloads the backup
\* whose last-modified time is the greatest among the backend's backups,
\* whatever the order in which they were uploaded.
C14_LatestIsNewestBlob ==
    (prog = "restore" /\ Restoring /\ rargs.backup = Latest)
    => \E b \in Blobs(remote[rargs.backend]) :
         /\ b.filename = loc.file
         /\ \A a \in Blobs(remote[rargs.backend]) : a.modified <= b.modified

\* C15: whatever the backend, the listing of its backups has the newest
\* first and holds no manifest object.
C15_ListingNewestFirstNoManifest ==
    /\ \A i \in 1..Len(listing) : ~listing[i].sidecar
    /\ \A i, j \in 1..Len(listing) :
         i < j => listing[i].modified >= listing[j].modified

(* ======================= selecting a backup =========================== *)
\* the bucket the running restore reads
Store == IF prog = "restore" THEN remote[rargs.backend] ELSE s3

\* the restore was asked for a backup by name
ByName == /\ prog \in {"restore_v2", "restore"}
          /\ rargs.backup \notin {Latest, NoFile}

AbsentSidecar ==
    ~\E o \in Store : o.sidecar /\ o.filename = loc.file

\* C17: when the bucket holds no manifest for the selected backup, the
\* verification step does not fail the restore and its outcome is reported
\* as skipped, which is not the report of a passed verification.
C17_AbsentManifestIsSkipped ==
    (Restoring /\ AbsentSidecar /\ ~rargs.no_verify /\ pc \in {"restore", "done"})
    => loc.verified = "skipped"

C17_Witness ==
    /\ Restoring /\ AbsentSidecar /\ ~rargs.no_verify
    /\ loc.verified = "skipped"
    /\ HasEvent("replay_dd")
    /\ pc = "done" /\ exit = 0


(* ==================== uploading to several backends =================== *)
\* an upload of this run to some backend was reported failed
UploadFailed == \E b \in Backends1 : HasEvent("upload_failed:" \o b)

\* an upload of this run to some backend was attempted
Attempted(b) ==
    HasEvent("upload_blob:" \o b) \/ HasEvent("upload_failed:" \o b)

\* C18: the result of a backup run is the conjunction of its per-backend
\* upload results: a finished run in which some upload failed reports
\* failure, and one that made uploads of which none failed reports success.
C18_ResultIsAndOfUploads ==
    (prog \in {"backup", "backup_v2"} /\ pc = "done")
    => /\ UploadFailed => exit = 1
       /\ ((\E b \in Backends1 : Attempted(b)) /\ ~UploadFailed) => exit = 0


\* the backends the upload loop of the run goes through: the requested ones
\* that are configured
Requested ==
    IF args.backend = "all" THEN args.enabled ELSE {args.backend} \cap args.enabled

\* C19: a failed upload to one backend does not end the upload loop: every
\* requested backend of the run has been attempted once the loop is over.
C19_FailureDoesNotStopOtherBackends ==
    (prog \in {"backup", "backup_v2"} /\ UploadFailed)
    => \A b \in Requested : Attempted(b)

C19_Witness ==
    /\ prog = "backup" /\ args.backend = "all"
    /\ HasEvent("upload_failed:s3")
    /\ HasEvent("upload_blob:gcs")
    /\ \E o \in remote["gcs"] : o.filename = engine.image_path /\ ~o.sidecar
    /\ pc = "done" /\ exit = 1


\* the backends whose upload the run of backup.py reported successful
ReportedUploaded ==
    {engine.results[i].backend :
       i \in {k \in 1..Len(engine.results) :
                /\ engine.results[k].backend \in Backends1
                /\ engine.results[k].ok}}

\* C20: once backup.py has reported the upload to a backend successful, the
\* backend's listing has an entry of the image's filename, and get_manifest
\* of that filename gives a manifest with the checksum of the manifest the
\* run wrote locally.
C20_UploadedBackupHasManifest ==
    (prog = "backup" /\ pc \in {"cleanup", "done"})
    => \A b \in ReportedUploaded :
         /\ \A l \in backend_list_backups(b, remote[b]) :
              \E k \in DOMAIN l : ObjName(l[k]) = engine.image_path
         /\ get_manifest(remote[b], engine.image_path) # NoManifest
         /\ get_manifest(remote[b], engine.image_path).checksum_sha256
              = engine.manifest.checksum_sha256


(* ================== manifests without a stored backup ================= *)
\* the manifest the create step of the running backup_v2.py process takes
\* as the last one: find_last_manifest() of an incremental backup,
\* find_last_manifest('full') of a differential one
BaseResolved ==
    IF args.type = "differential" THEN find_last_manifest(manifestDir, "full")
    ELSE find_last_manifest(manifestDir, "any")

\* the bucket holds the backup the manifest describes
Stored(m) == \E o \in Blobs(s3) : o.filename = m.filename

\* C21: a manifest whose backup is not in the bucket (never uploaded, or
\* rotated out) counts as deleted: the base resolution of an incremental or
\* differential run never gives such a manifest.
C21_BaseResolutionSkipsOrphans ==
    (prog = "backup_v2" /\ pc = "create" /\ ~args.dry_run
       /\ args.type \in {"incremental", "differential"}
       /\ BaseResolved # NoManifest)
    => Stored(BaseResolved)


(* ========================= failed downloads =========================== *)
\* C22: a download that fails writes nothing that stays: the step of a
\* restore in which the download of the backup fails leaves no file in the
\* scratch directory that was not there before.
C22_FailedDownloadLeavesNoFile ==
    [][(prog = "restore" /\ pc = "download" /\ pc' = "done")
         => restoreDir'["restore"] \subseteq restoreDir["restore"]]_vars


(* ======================= the scratch directory ======================== *)
\* the artifacts in the scratch directory of the process: for a backup the
\* files named with its timestamp, for a restore whatever its directory has
ScratchArtifacts ==
    IF prog \in {"backup", "backup_v2"}
    THEN {f \in tempDir : ~f.sidecar /\ f.filename.ts = engine.timestamp}
    ELSE IF prog \in {"restore", "restore_v2"}
    THEN {f \in restoreDir[prog] : ~f.sidecar}
    ELSE {}

\* C23: when a backup or restore run has ended, with success or with any
\* failure, its scratch directory holds no artifact of the run, unless the
\* run was asked to keep the local copy (a verify-only restore, which skips
\* the cleanup on purpose, is left out as well).
C23_ScratchEmptyAfterRun ==
    (pc = "done" /\ ~args.keep_local /\ ~rargs.verify_only)
    => ScratchArtifacts = {}


(* ============================ verify-only ============================= *)
\* C24: a restore.py run with --verify-only downloads and verifies and does
\* nothing else: it asks for no confirmation and never replays the image
\* onto a disk, whether the verification passed, failed or was skipped.
C24_VerifyOnlyNeverReplays ==
    (prog = "restore" /\ rargs.verify_only)
    => /\ ~Replayed
       /\ ~HasEvent("confirm")
       /\ (Restoring /\ pc \in {"restore", "done"}) => loc.verified # "not run"

C24_Witness ==
    /\ prog = "restore" /\ rargs.verify_only
    /\ HasEvent("download") /\ loc.verified = "passed"
    /\ pc = "done" /\ exit = 0
    /\ ~Replayed


(* ====================== deleting from a backend ======================= *)
\* what the two delete calls of delete_backup do: both succeed, the first
\* raises, the second (the manifest's) raises
DeleteOutcomes == {"ok", "blob_fail", "sidecar_fail"}

\* backend.delete_backup(remote_name) of backup.py's backends: the backup,
\* then its manifest, inside one try block whose except clause returns
\* False.  S3's delete_object succeeds for a key that does not exist; GCS's
\* blob.delete() raises for a missing blob and Google Drive's lookup comes
\* back empty, and both return False then.
delete_backup(backend, bucket, remote_name, how) ==
    LET blob == {o \in bucket : ~o.sidecar /\ o.filename = remote_name}
        side == {o \in bucket : o.sidecar /\ o.filename = remote_name}
    IN IF how = "blob_fail" \/ (backend # "s3" /\ blob = {})
       THEN [bucket |-> bucket, ret |-> FALSE, events |-> <<"delete_failed">>]
       ELSE IF how = "sidecar_fail"
       THEN [bucket |-> bucket \ blob, ret |-> FALSE,
             events |-> <<"delete_blob", "delete_manifest_failed">>]
       ELSE [bucket |-> (bucket \ blob) \ side, ret |-> TRUE,
             events |-> <<"delete_blob", "delete_manifest">>]

\* a caller deletes one backup from one backend; the value delete_backup
\* returned is kept in results
DeleteBackup ==
    /\ pc = "idle"
    /\ runs < MaxRuns
    /\ \E b \in Backends1, name \in {FileName("full", 0), FileName("full", 1)},
          how \in DeleteOutcomes :
         LET d == delete_backup(b, remote[b], name, how)
         IN /\ remote' = [remote EXCEPT ![b] = d.bucket]
            /\ rargs' = [NoRestoreArgs EXCEPT !.backend = b, !.backup = name]
            /\ engine' = [NoEngine EXCEPT !.results = <<[backend |-> b, ok |-> d.ret]>>]
            /\ events' = d.events
    /\ runs' = runs + 1
    /\ prog' = "delete_backup"
    /\ pc' = "done"
    /\ UNCHANGED <<clock, manifestDir, tempDir, snapshots, latest, s3, args,
                   backup_file, exit, startDir, restoreDir, loc, listing>>

NextDelete ==
    \/ DeleteBackup
    \/ ProcessEnd

SpecDelete == InitRestore1 /\ [][NextDelete]_vars

\* C25: delete_backup deletes the backup and tries to delete its manifest;
\* it reports success whenever the backup itself was deleted, also when the
\* deletion of the manifest failed, and after a reported success the backend
\* holds neither the backup nor its manifest.
C25_SidecarFailureNotPropagated ==
    (prog = "delete_backup" /\ pc = "done")
    => /\ HasEvent("delete_blob") => engine.results[1].ok
       /\ engine.results[1].ok
            => ~\E o \in remote[rargs.backend] : o.filename = rargs.backup


(* ================== rotation of a chain of backups ==================== *)
\* What earlier runs with rotation left behind: a full backup followed by
\* incremental ones, one per second, each recording the backup before it as
\* its base; at most MAX_BACKUPS of them, all uploaded with their manifests,
\* whose local copies are in MANIFEST_DIR.
ChainName(i, n) ==
    IF i = n THEN FileName("full", 0 - i) ELSE FileName("incremental", 0 - i)

ChainManifest(i, n) ==
    [type |-> ChainName(i, n).type, timestamp |-> 0 - i,
     filename |-> ChainName(i, n),
     source_disk |-> IF i = n THEN SourceDisk ELSE NoDisk,
     checksum_sha256 |-> SHA256(1),
     base_backup |-> IF i = n THEN AbsentRef ELSE ChainName(i + 1, n)]

ChainBucket(n) ==
    {S3Object(ChainName(i, n), FALSE, 1, NoManifest, 0 - i) : i \in 1..n}
    \cup {S3Object(ChainName(i, n), TRUE, 0, ChainManifest(i, n), 0 - i) : i \in 1..n}

InitChain ==
    /\ clock = 0
    /\ runs = 0
    /\ \E n \in 0..MAX_BACKUPS :
         /\ s3 = ChainBucket(n)
         /\ manifestDir = {ChainManifest(i, n) : i \in 1..n}
         /\ snapshots = {0 - i : i \in 1..(n - 1)}
         /\ latest = IF n > 1 THEN 0 - 1 ELSE NoSnapshot
    /\ tempDir = {}
    /\ prog = "none"
    /\ pc = "idle"
    /\ args = NoArgs
    /\ engine = NoEngine
    /\ backup_file = NoFile
    /\ events = <<>>
    /\ exit = Running
    /\ startDir = {}
    /\ restoreDir = [p \in {"restore_v2", "restore"} |-> {}]
    /\ rargs = NoRestoreArgs
    /\ loc = NoLocals
    /\ remote = [b \in Backends1 |-> {}]
    /\ listing = <<>>

\* full and incremental backups uploaded to S3 and rotated
ChainArgs == {a \in V2Args : /\ a.type \in {"full", "incremental"}
                             /\ a.backend = "s3" /\ a.enabled = {"s3"}
                             /\ ~a.no_rotation /\ ~a.dry_run /\ ~a.no_upload}

V2StartChain == V2StartWith(ChainArgs)

NextChain ==
    \/ Tick
    \/ V2StartChain
    \/ V2Create
    \/ V2Upload
    \/ V2Rotate
    \/ V2Cleanup
    \/ ProcessEnd

SpecChain == InitChain /\ [][NextChain]_vars

\* the retained backup o is an incremental one whose manifest in the bucket
\* records a base that the bucket given holds
HasBaseIn(bucket, o, after) ==
    LET m == get_manifest(after, o.filename)
    IN /\ m.type = "incremental"
       /\ \E b \in Blobs(bucket) : b.filename = m.base_backup

\* C26: rotation never removes the base of an incremental backup it keeps:
\* a retained incremental backup whose base was in the bucket before the
\* rotation has it in the bucket afterwards.
C26_RotationKeepsBases ==
    [][(prog = "backup_v2" /\ pc = "rotate" /\ pc' = "cleanup")
         => \A o \in Blobs(s3') : HasBaseIn(s3, o, s3') => HasBaseIn(s3', o, s3')]_vars


(* ======================= runs without an upload ======================= *)
\* a finished backup run that captured its artifact and skipped every
\* requested backend, none of them being configured
NothingUploaded ==
    /\ prog \in {"backup", "backup_v2"} /\ pc = "done"
    /\ ~args.dry_run /\ ~args.no_upload
    /\ HasEvent("checksum")
    /\ Requested = {}

\* C27: a backup run that skipped every requested backend, so that nothing
\* was uploaded, does not report success and leaves the local artifact
\* where it is.
C27_NoUploadIsNotSuccess ==
    NothingUploaded
    => /\ exit = 1
       /\ ~HasEvent("cleanup")
       /\ ScratchArtifacts # {}


(* ===================== the snapshot of a failed run =================== *)
\* a step in which the create method of an incremental (or differential)
\* backup_v2.py run fails
CreateFailed ==
    /\ prog = "backup_v2" /\ pc = "create" /\ pc' = "done"
    /\ args.type \in {"incremental", "differential"}

\* C28: an incremental backup that fails, at whatever step, leaves the
\* snapshots/latest link as it was, so that it still designates the
\* snapshot of a backup that has a manifest.
C28_FailedIncrementalKeepsLatest ==
    [][CreateFailed => latest' = latest]_vars


(* ============================= dry runs =============================== *)
\* C29: a dry run of a backup with a configured backend captures nothing,
\* writes no manifest, uploads, rotates and deletes nothing, and ends
\* reporting success (unless backup_v2.py could not find the disk at all).
C29_DryRunDoesNothingAndSucceeds ==
    (prog \in {"backup", "backup_v2"} /\ args.dry_run /\ args.enabled # {})
    => /\ events = <<>>
       /\ manifestDir = startDir
       /\ (pc = "done" /\ (prog = "backup_v2" => backup_file # NoFile)) => exit = 0


(* ================= rotation when all backends are asked =============== *)
\* full backups uploaded and rotated, to S3 alone or to all backends
RotateAllArgs == {a \in V2Args : /\ a.type = "full"
                                 /\ \/ a.backend = "s3" /\ a.enabled = {"s3"}
                                    \/ a.backend = "all" /\ a.enabled = {"s3", "gdrive"}
                                 /\ ~a.no_rotation /\ ~a.dry_run /\ ~a.no_upload}

V2StartRotateAll == V2StartWith(RotateAllArgs)

NextRotateAll ==
    \/ Tick
    \/ V2StartRotateAll
    \/ V2Create
    \/ V2Upload
    \/ V2Rotate
    \/ V2Cleanup
    \/ ProcessEnd

SpecRotateAll == InitRotate /\ [][NextRotateAll]_vars

\* C30: when a backup run that is not a dry run and has rotation enabled is
\* over, and no delete of its rotation failed, the bucket it uploaded to
\* holds at most MAX_BACKUPS backups, whether the run was asked for one
\* backend or for all of them.
C30_AtMostMaxBackupsAfterRun ==
    (prog = "backup_v2" /\ pc = "done" /\ exit = 0
       /\ ~args.dry_run /\ ~args.no_rotation
       /\ HasEvent("upload_blob:s3") /\ ~HasEvent("rotate_failed:s3"))
    => Cardinality(Blobs(s3)) <= MAX_BACKUPS

=============================================================================
